---- MODULE Spec2Model ----
(***************************************************************************)
(* NanoVNA web client, websocket.py: the serial-port arbiter               *)
(* (assume_control), the bridge session (nanovna_control), the reader      *)
(* thread's protocol (VnaProtocol.data_received), the latin1 mapping used  *)
(* in both directions, and the request gate (process_request).             *)
(*                                                                         *)
(* A session is one websocket connection; it acquires at most once, so the *)
(* serial handle and the ReaderThread it creates are named by the session. *)
(* All handlers run on one asyncio thread: `running` is the handler that   *)
(* is between two awaits (0 when the loop is idle); reader threads and     *)
(* clients run concurrently with it.                                       *)
(***************************************************************************)
EXTENDS Integers, Sequences, FiniteSets, TLC

\* ---- bounds ----
NumSessions == 2
MaxMsgs == 2
MaxChunks == 1
MaxLen == 3
MaxPathLen == 4

\* ---- program constants ----
LATIN1_MAX == 255
CONTROL_TOKEN == "nanovna-control"

Sessions == 1..NumSessions
None == 0

VARIABLES
    pc,                  \* position of each session's handler
    ws,                  \* websocket of each session: "none", "open", "closed"
    vna,                 \* serial.Serial of each session: "none", "open", "closed"
    thread,              \* ReaderThread of each session: "none", "running" (in the
                         \* read), "sending" (in data_received), "late" (still in
                         \* data_received after stop() returned), "stopped",
                         \* "dead" (the read raised), "broken" (the send raised)
    chunk,               \* the bytes the reader thread holds inside data_received
    NANOVNA_THREAD,      \* the global slot: a session's thread, or None
    NANOVNA_THREAD_LOCK, \* hold count of the global RLock (asyncio thread)
    running,             \* handler executing on the asyncio thread, or 0
    inbox,               \* frames the client sent that recv() has not returned yet
    nsent,               \* number of frames the clients have sent so far
    msg,                 \* the frame nanovna_control holds after recv()
    recvd,               \* ids of the frames recv() returned, in order
    written,             \* what vna.write() put on the serial line, in order
    outbox,              \* texts ws.send() delivered to the client
    releases,            \* times the finally block of assume_control ran
    prev,                \* NANOVNA_THREAD as the session's acquire found it
    cause,               \* why the handler left the loop or failed
    cdata, cmsg, cecho,  \* latin1 round trip: bytes, decoded text, re-encoded bytes
    gpath, gupgrade,     \* request gate: the path and whether an Upgrade header came
    gresp,               \* its answer: "none", "upgrade", "404", "200"
    gfile,               \* the file it opened
    ghandler             \* process_websocket was called for the request

bridgeVars == <<pc, ws, vna, thread, chunk, NANOVNA_THREAD, NANOVNA_THREAD_LOCK, running,
                inbox, nsent, msg, recvd, written, outbox, releases, prev, cause>>
codecVars == <<cdata, cmsg, cecho>>
gateVars == <<gpath, gupgrade, gresp, gfile, ghandler>>
vars == <<bridgeVars, codecVars, gateVars>>

\* ---- latin1 ----
\* bytes: a sequence of integers 0..255; str: a sequence of code points [cp |-> n]

\* a decoder that replaces bytes outside ASCII
latin1_decode_ascii(b) == [i \in 1..Len(b) |-> [cp |-> IF b[i] > 127 THEN 65533 ELSE b[i]]]

\* bytes.decode('latin1'): never fails, byte b becomes the code point b
latin1_decode(b) == [i \in 1..Len(b) |-> [cp |-> b[i]]]

\* str.encode('latin1'): UnicodeEncodeError when a code point is above 255
latin1_encode(t) ==
    IF \E i \in 1..Len(t) : t[i].cp > LATIN1_MAX
    THEN [ok |-> FALSE, bytes |-> <<>>]
    ELSE [ok |-> TRUE, bytes |-> [i \in 1..Len(t) |-> t[i].cp]]

\* ---- bridge: values ----
NoMsg == [id |-> 0, text |-> <<>>]

\* texts a client may send: one inside latin1, one with a code point above 255
ClientTexts == { <<[cp |-> 100], [cp |-> 255]>>, <<[cp |-> 8364]>> }

\* a chunk the serial line may deliver
DeviceChunks == { <<0, 255>> }

Active == {"loop", "recv", "write"}
Terminal == {"closed", "failed"}

\* a close that leaves the handle open
serial_close_skip(v, t) == v

\* serial.Serial.close(), called by ReaderThread.close(): the handle is closed
serial_close(v, t) == [v EXCEPT ![t] = "closed"]

\* ReaderThread.stop(): alive = False, cancel_read(), join(2). A reader in the
\* read stops; one that ended on an error stays ended; one that is inside
\* data_received is waited for two seconds at most and may still be there when
\* stop() returns (a send that ends within the wait is the send before the stop)
reader_stop(th, t) ==
    [th EXCEPT ![t] = IF th[t] = "running" THEN "stopped"
                      ELSE IF th[t] = "sending" THEN "late"
                      ELSE th[t]]

\* a join without timeout: it returns only when the reader has left data_received
join_returns_untimed(th, t) == th[t] # "sending"

\* the join(2) of ReaderThread.stop() returns after two seconds at most, whatever
\* the reader thread is doing
join_returns(th, t) == TRUE

\* a test for any occupant instead of this session's own thread
is_current_any(slot, s) == slot # None

\* line 101, the test of the finally block: NANOVNA_THREAD is thread
is_current(slot, s) == slot = s

\* a release placed after the yield without try/finally: an exception skips it
on_exit_no_finally(c) == IF c = "loop" THEN "release" ELSE "closed"

\* lines 97-99 and the with statement of line 106: where control goes when the
\* body of the with block is left for reason c
on_exit(c) == "release"

\* a write that does not look at the port first
port_is_open_unchecked(v, s) == TRUE

\* line 111: vna.is_open, read under the lock just before the write
port_is_open(v, s) == v[s] = "open"

\* ws.recv() returns the oldest frame
next_frame(q) == Head(q)

\* a write that overtakes what was written before
serial_write_front(w, f) == <<f>> \o w

\* vna.write(): the bytes go on the line after everything written before
serial_write(w, f) == Append(w, f)

rest_frames(q, f) == SelectSeq(q, LAMBDA x : x.id # f.id)

\* the asyncio thread is free again once the handler has ended or awaits
loop_owner(s, p) == IF p \in Terminal \cup {"recv"} THEN 0 ELSE s

\* chunks delivered so far, over all sessions
RECURSIVE ChunksUpTo(_, _)
ChunksUpTo(o, n) == IF n = 0 THEN 0 ELSE Len(o[n]) + ChunksUpTo(o, n - 1)
Chunks(o) == ChunksUpTo(o, NumSessions)

\* chunks the reader threads hold
Held(c) == Cardinality({s \in Sessions : c[s] # <<>>})

\* ---- bridge: initial state ----
BridgeInit ==
    /\ pc = [s \in Sessions |-> "idle"]
    /\ ws = [s \in Sessions |-> "none"]
    /\ vna = [s \in Sessions |-> "none"]
    /\ thread = [s \in Sessions |-> "none"]
    /\ chunk = [s \in Sessions |-> <<>>]
    /\ NANOVNA_THREAD = None
    /\ NANOVNA_THREAD_LOCK = 0
    /\ running = 0
    /\ inbox = [s \in Sessions |-> <<>>]
    /\ nsent = 0
    /\ msg = [s \in Sessions |-> NoMsg]
    /\ recvd = [s \in Sessions |-> <<>>]
    /\ written = [s \in Sessions |-> <<>>]
    /\ outbox = [s \in Sessions |-> <<>>]
    /\ releases = [s \in Sessions |-> 0]
    /\ prev = [s \in Sessions |-> None]
    /\ cause = [s \in Sessions |-> "none"]

NoBytes == [has |-> FALSE, bytes |-> <<>>]
NoText == [has |-> FALSE, text |-> <<>>]
NoEcho == [has |-> FALSE, ok |-> FALSE, bytes |-> <<>>]
NoFile == [has |-> FALSE, path |-> <<>>]

CodecIdle == cdata = NoBytes /\ cmsg = NoText /\ cecho = NoEcho
GateIdle ==
    /\ gpath = <<>> /\ gupgrade = FALSE /\ gresp = "none"
    /\ gfile = NoFile /\ ghandler = FALSE

Init == BridgeInit /\ CodecIdle /\ GateIdle

\* ---- the client and the server's accept ----
\* The connection objects live on the asyncio thread: a new connection, a frame
\* or a close from a client is taken in only while no handler is running.
\* websockets.serve accepts the upgrade and calls process_websocket (lines 62-65),
\* which runs without an await up to the first ws.recv() of nanovna_control.
\* Sessions are numbered in the order the server accepts them.
process_websocket(s) ==
    /\ pc[s] = "idle"
    /\ \A r \in 1..(s - 1) : pc[r] # "idle"
    /\ running = 0
    /\ pc' = [pc EXCEPT ![s] = "starting"]
    /\ ws' = [ws EXCEPT ![s] = "open"]
    /\ running' = s
    /\ UNCHANGED <<chunk, vna, thread, NANOVNA_THREAD, NANOVNA_THREAD_LOCK, inbox,
                   nsent, msg, recvd, written, outbox, releases, prev, cause>>

client_send(s) ==
    /\ ws[s] = "open"
    /\ running = 0
    /\ nsent < MaxMsgs
    /\ \E t \in ClientTexts :
         inbox' = [inbox EXCEPT ![s] = Append(@, [id |-> nsent + 1, text |-> t])]
    /\ nsent' = nsent + 1
    /\ UNCHANGED <<chunk, pc, ws, vna, thread, NANOVNA_THREAD, NANOVNA_THREAD_LOCK, running,
                   msg, recvd, written, outbox, releases, prev, cause>>

client_close(s) ==
    /\ ws[s] = "open"
    /\ running = 0
    /\ ws' = [ws EXCEPT ![s] = "closed"]
    /\ UNCHANGED <<chunk, pc, vna, thread, NANOVNA_THREAD, NANOVNA_THREAD_LOCK, running, inbox,
                   nsent, msg, recvd, written, outbox, releases, prev, cause>>

\* ---- assume_control, entry (lines 87-96) ----
\* an acquire whose opening lines stand inside the try block
on_acquire_error_in_try(c) == "release"

\* lines 87-96 stand before the try of line 97: an exception raised there leaves
\* assume_control without the finally block and the with body never starts
on_acquire_error(c) == "failed"

\* the acquire raised for reason c; the with statement of line 87 frees the lock;
\* when the handler ends with the exception, websockets ends the connection
handler_raises(s, c) ==
    /\ pc' = [pc EXCEPT ![s] = on_acquire_error(c)]
    /\ cause' = [cause EXCEPT ![s] = c]
    /\ ws' = IF on_acquire_error(c) \in Terminal THEN [ws EXCEPT ![s] = "closed"] ELSE ws
    /\ running' = loop_owner(s, on_acquire_error(c))
    /\ NANOVNA_THREAD_LOCK' = 0

\* lines 87-92: take the lock, close the occupant and empty the slot
assume_control_evict(s) ==
    /\ pc[s] = "starting"
    /\ running = s
    /\ prev' = [prev EXCEPT ![s] = NANOVNA_THREAD]
    /\ NANOVNA_THREAD # None => join_returns(thread, NANOVNA_THREAD)
    /\ IF NANOVNA_THREAD # None
       THEN \/ /\ thread' = reader_stop(thread, NANOVNA_THREAD)
               /\ vna' = serial_close(vna, NANOVNA_THREAD)
               /\ NANOVNA_THREAD' = None
               /\ pc' = [pc EXCEPT ![s] = "open"]
               /\ NANOVNA_THREAD_LOCK' = 1
               /\ UNCHANGED <<ws, cause, running>>
            \/ \* NANOVNA_THREAD.close() raises: line 92 is not reached
               /\ thread' = reader_stop(thread, NANOVNA_THREAD)
               /\ handler_raises(s, "teardown")
               /\ UNCHANGED <<vna, NANOVNA_THREAD>>
       ELSE /\ pc' = [pc EXCEPT ![s] = "open"]
            /\ NANOVNA_THREAD_LOCK' = 1
            /\ UNCHANGED <<thread, vna, NANOVNA_THREAD, ws, cause, running>>
    /\ UNCHANGED <<chunk, inbox, nsent, msg, recvd, written, outbox, releases>>

\* line 93: serial.Serial(nanovna_path, 115200) opens the port or raises
assume_control_open(s) ==
    /\ pc[s] = "open"
    /\ running = s
    /\ \/ /\ vna' = [vna EXCEPT ![s] = "open"]
          /\ pc' = [pc EXCEPT ![s] = "install"]
          /\ UNCHANGED <<ws, cause, running, NANOVNA_THREAD_LOCK>>
       \/ /\ handler_raises(s, "open")
          /\ UNCHANGED vna
    /\ UNCHANGED <<chunk, thread, NANOVNA_THREAD, inbox, nsent, msg, recvd, written, outbox,
                   releases, prev>>

\* lines 94-98: create the reader, install it, start it, leave the lock, yield
assume_control_start(s) ==
    /\ pc[s] = "install"
    /\ running = s
    /\ NANOVNA_THREAD' = s
    /\ thread' = [thread EXCEPT ![s] = "running"]
    /\ NANOVNA_THREAD_LOCK' = 0
    /\ pc' = [pc EXCEPT ![s] = "loop"]
    /\ UNCHANGED <<chunk, ws, vna, running, inbox, nsent, msg, recvd, written, outbox,
                   releases, prev, cause>>

\* ---- nanovna_control (lines 105-114) ----
\* the with block is left for reason c
leave_loop(s, c) ==
    /\ pc' = [pc EXCEPT ![s] = on_exit(c)]
    /\ cause' = [cause EXCEPT ![s] = c]
    /\ running' = loop_owner(s, on_exit(c))
    /\ ws' = IF on_exit(c) \in Terminal THEN [ws EXCEPT ![s] = "closed"] ELSE ws

\* line 107: while ws.open and vna.is_open
nanovna_control_loop(s) ==
    /\ pc[s] = "loop"
    /\ running = s
    /\ IF ws[s] = "open" /\ vna[s] = "open"
       THEN /\ pc' = [pc EXCEPT ![s] = "recv"]
            /\ running' = 0
            /\ UNCHANGED <<cause, ws>>
       ELSE leave_loop(s, "loop")
    /\ UNCHANGED <<chunk, vna, thread, NANOVNA_THREAD, NANOVNA_THREAD_LOCK, inbox, nsent, msg,
                   recvd, written, outbox, releases, prev>>

\* line 108: await ws.recv() returns a frame, or raises once the connection is
\* closed and no frame is left
nanovna_control_recv(s) ==
    /\ pc[s] = "recv"
    /\ running = 0
    /\ IF inbox[s] # <<>>
       THEN /\ msg' = [msg EXCEPT ![s] = next_frame(inbox[s])]
            /\ inbox' = [inbox EXCEPT ![s] = rest_frames(@, next_frame(inbox[s]))]
            /\ recvd' = [recvd EXCEPT ![s] = Append(@, next_frame(inbox[s]).id)]
            /\ pc' = [pc EXCEPT ![s] = "write"]
            /\ running' = s
            /\ UNCHANGED <<cause, ws>>
       ELSE /\ ws[s] = "closed"
            /\ leave_loop(s, "netclose")
            /\ UNCHANGED <<msg, inbox, recvd>>
    /\ UNCHANGED <<chunk, vna, thread, NANOVNA_THREAD, NANOVNA_THREAD_LOCK, nsent, written,
                   outbox, releases, prev>>

\* lines 110-114: under the lock, write the encoded frame if the port is open
nanovna_control_write(s) ==
    /\ pc[s] = "write"
    /\ running = s
    /\ msg' = [msg EXCEPT ![s] = NoMsg]
    /\ IF port_is_open(vna, s)
       THEN IF latin1_encode(msg[s].text).ok
            THEN \/ /\ written' = [written EXCEPT ![s] =
                          serial_write(@, [id |-> msg[s].id,
                                           bytes |-> latin1_encode(msg[s].text).bytes])]
                    /\ pc' = [pc EXCEPT ![s] = "loop"]
                    /\ UNCHANGED <<cause, ws, running>>
                 \/ \* vna.write() raises SerialException
                    /\ leave_loop(s, "write")
                    /\ UNCHANGED written
            ELSE \* msg.encode('latin1') raises UnicodeEncodeError
                 /\ leave_loop(s, "encode")
                 /\ UNCHANGED written
       ELSE /\ pc' = [pc EXCEPT ![s] = "loop"]
            /\ UNCHANGED <<cause, ws, running, written>>
    /\ UNCHANGED <<chunk, vna, thread, NANOVNA_THREAD, NANOVNA_THREAD_LOCK, inbox, nsent,
                   recvd, outbox, releases, prev>>

\* ---- assume_control, exit (lines 99-103) ----
\* the finally block; afterwards the handler ends and the connection is closed
assume_control_release(s) ==
    /\ pc[s] = "release"
    /\ running = s
    /\ releases' = [releases EXCEPT ![s] = @ + 1]
    /\ pc' = [pc EXCEPT ![s] = "closed"]
    /\ ws' = [ws EXCEPT ![s] = "closed"]
    /\ running' = 0
    /\ is_current(NANOVNA_THREAD, s) => join_returns(thread, NANOVNA_THREAD)
    /\ IF is_current(NANOVNA_THREAD, s)
       THEN \/ /\ thread' = reader_stop(thread, NANOVNA_THREAD)
               /\ vna' = serial_close(vna, NANOVNA_THREAD)
               /\ NANOVNA_THREAD' = None
            \/ \* NANOVNA_THREAD.close() raises: line 103 is not reached
               /\ thread' = reader_stop(thread, NANOVNA_THREAD)
               /\ UNCHANGED <<vna, NANOVNA_THREAD>>
       ELSE UNCHANGED <<thread, vna, NANOVNA_THREAD>>
    /\ UNCHANGED <<chunk, NANOVNA_THREAD_LOCK, inbox, nsent, msg, recvd, written, outbox,
                   prev, cause>>

\* ---- the reader thread (serial.threaded.ReaderThread with VnaProtocol) ----
\* the read of the reader loop returns bytes and the thread calls data_received
reader_read(s) ==
    /\ thread[s] = "running"
    /\ vna[s] = "open"
    /\ Chunks(outbox) + Held(chunk) < MaxChunks
    /\ \E d \in DeviceChunks : chunk' = [chunk EXCEPT ![s] = d]
    /\ thread' = [thread EXCEPT ![s] = "sending"]
    /\ UNCHANGED <<pc, ws, vna, NANOVNA_THREAD, NANOVNA_THREAD_LOCK, running, inbox,
                   nsent, msg, recvd, written, outbox, releases, prev, cause>>

\* lines 74-79, on the reader thread: the chunk is decoded and asyncio.run() runs
\* ws.send() to its end; a send that raises ends the thread; a thread that was
\* told to stop ends after the send
data_received(s) ==
    /\ thread[s] \in {"sending", "late"}
    /\ chunk' = [chunk EXCEPT ![s] = <<>>]
    /\ \/ /\ ws[s] = "open"
          /\ outbox' = [outbox EXCEPT ![s] = Append(@, latin1_decode(chunk[s]))]
          /\ thread' = [thread EXCEPT ![s] = IF @ = "late" THEN "stopped" ELSE "running"]
       \/ /\ thread' = [thread EXCEPT ![s] = "broken"]
          /\ UNCHANGED outbox
    /\ UNCHANGED <<pc, ws, vna, NANOVNA_THREAD, NANOVNA_THREAD_LOCK, running, inbox,
                   nsent, msg, recvd, written, releases, prev, cause>>

\* the read of the reader loop raises SerialException (device gone, end of stream):
\* the thread ends, the port object stays open
reader_read_error(s) ==
    /\ thread[s] = "running"
    /\ vna[s] = "open"
    /\ thread' = [thread EXCEPT ![s] = "dead"]
    /\ UNCHANGED <<chunk, pc, ws, vna, NANOVNA_THREAD, NANOVNA_THREAD_LOCK, running, inbox,
                   nsent, msg, recvd, written, outbox, releases, prev, cause>>

LoopStep(s) ==
    \/ assume_control_evict(s)
    \/ assume_control_open(s)
    \/ assume_control_start(s)
    \/ nanovna_control_loop(s)
    \/ nanovna_control_recv(s)
    \/ nanovna_control_write(s)
    \/ assume_control_release(s)

Next ==
    \/ \E s \in Sessions : process_websocket(s) /\ UNCHANGED <<codecVars, gateVars>>
    \/ \E s \in Sessions : client_send(s) /\ UNCHANGED <<codecVars, gateVars>>
    \/ \E s \in Sessions : client_close(s) /\ UNCHANGED <<codecVars, gateVars>>
    \/ \E s \in Sessions : assume_control_evict(s) /\ UNCHANGED <<codecVars, gateVars>>
    \/ \E s \in Sessions : assume_control_open(s) /\ UNCHANGED <<codecVars, gateVars>>
    \/ \E s \in Sessions : assume_control_start(s) /\ UNCHANGED <<codecVars, gateVars>>
    \/ \E s \in Sessions : nanovna_control_loop(s) /\ UNCHANGED <<codecVars, gateVars>>
    \/ \E s \in Sessions : nanovna_control_recv(s) /\ UNCHANGED <<codecVars, gateVars>>
    \/ \E s \in Sessions : nanovna_control_write(s) /\ UNCHANGED <<codecVars, gateVars>>
    \/ \E s \in Sessions : assume_control_release(s) /\ UNCHANGED <<codecVars, gateVars>>
    \/ \E s \in Sessions : reader_read(s) /\ UNCHANGED <<codecVars, gateVars>>
    \/ \E s \in Sessions : data_received(s) /\ UNCHANGED <<codecVars, gateVars>>
    \/ \E s \in Sessions : reader_read_error(s) /\ UNCHANGED <<codecVars, gateVars>>

Spec == Init /\ [][Next]_vars

\* the asyncio thread runs a handler that can run; clients and the device are free
FairSpec == Spec /\ \A s \in Sessions : WF_vars(LoopStep(s) /\ UNCHANGED <<codecVars, gateVars>>)

\* ---- properties of the arbiter and the session ----
Range(q) == {q[i] : i \in 1..Len(q)}
Pos(q, x) == CHOOSE j \in 1..Len(q) : q[j] = x
WrittenIds(s) == [i \in 1..Len(written[s]) |-> written[s][i].id]
ExitCauses == {"loop", "netclose", "write", "encode"}

\* C1: at most one serial handle is open at any instant, and a session opens its
\* handle (line 93) only when every earlier handle has been closed.
MutualExclusion ==
    /\ Cardinality({s \in Sessions : vna[s] = "open"}) <= 1
    /\ \A s \in Sessions : pc[s] = "open" => \A r \in Sessions : vna[r] # "open"

\* a second session holds the port after it has closed the first one's handle
MutualExclusionWitness ==
    \E a, b \in Sessions :
        /\ a # b /\ prev[b] = a /\ vna[a] = "closed"
        /\ vna[b] = "open" /\ NANOVNA_THREAD = b

\* C2: the release of a session that is no longer the occupant changes neither
\* the slot nor any serial handle nor any reader.
StaleReleaseNoop ==
    [][\A s \in Sessions :
          (pc[s] = "release" /\ pc'[s] = "closed" /\ NANOVNA_THREAD # s)
              => /\ NANOVNA_THREAD' = NANOVNA_THREAD
                 /\ vna' = vna
                 /\ thread' = thread]_vars

\* the first session has released after the second one took over, and the second
\* one still holds the open port with its reader running
StaleReleaseWitness ==
    \E a, b \in Sessions :
        /\ a # b /\ prev[b] = a /\ pc[a] = "closed" /\ releases[a] = 1
        /\ NANOVNA_THREAD = b /\ vna[b] = "open" /\ thread[b] = "running"

\* C3: the finally block runs exactly once for a session that left the loop,
\* whatever the reason, and not before it has left.
CleanupOnce ==
    \A s \in Sessions :
        /\ releases[s] <= 1
        /\ pc[s] \in Active => releases[s] = 0
        /\ (cause[s] \in ExitCauses /\ pc[s] # "release")
               => (pc[s] = "closed" /\ releases[s] = 1)
        /\ pc[s] = "closed" => (releases[s] = 1 /\ cause[s] \in ExitCauses)

\* a session whose connection closed while it waited in recv() has released once
CleanupOnceWitness ==
    \E s \in Sessions : pc[s] = "closed" /\ cause[s] = "netclose" /\ releases[s] = 1

\* C4: an acquire that fails on opening the port leaves the slot and the previous
\* occupant's handle as they were when the acquire began.
FailedAcquireMutatesNothing ==
    [][\A s \in Sessions :
          (pc[s] = "open" /\ pc'[s] = "failed")
              => /\ NANOVNA_THREAD' = prev[s]
                 /\ prev[s] # None => vna'[prev[s]] = "open"]_vars

\* C5: once the reader of an active session has ended on a read error, the
\* session leaves the loop.
DeviceEndEndsSession ==
    \A s \in Sessions :
        (thread[s] = "dead" /\ pc[s] \in Active) ~> (pc[s] \in {"release", "closed"})

\* C6: a session whose port was closed by a newer acquire, which now holds the
\* port, leaves the loop and its connection is closed.
SupersededCloses ==
    \A s \in Sessions :
        (/\ pc[s] = "recv" /\ vna[s] = "closed"
         /\ \E b \in Sessions : prev[b] = s /\ NANOVNA_THREAD = b /\ pc[b] = "recv")
            ~> (pc[s] = "closed" /\ ws[s] = "closed")

\* C7: a failure to close the previous occupant is not raised to the acquiring
\* session.
TeardownNeverFailsAcquirer ==
    \A s \in Sessions : ~(pc[s] = "failed" /\ cause[s] = "teardown")

\* C8: what a session wrote to the port is, in order and without repetition, a
\* selection of the frames recv() returned to it.
WriteOrder ==
    \A s \in Sessions :
        /\ \A i \in 1..Len(written[s]) : WrittenIds(s)[i] \in Range(recvd[s])
        /\ \A i, k \in 1..Len(written[s]) :
               i < k => Pos(recvd[s], WrittenIds(s)[i]) < Pos(recvd[s], WrittenIds(s)[k])

\* a session has written two frames
WriteOrderWitness ==
    \E s \in Sessions : Len(written[s]) >= 2 /\ Len(recvd[s]) >= 2

\* C12: a text is delivered to a session's connection only while that session
\* is the occupant of the slot.
OutputOnlyToController ==
    [][\A s \in Sessions : outbox'[s] # outbox[s] => NANOVNA_THREAD = s]_vars

\* C13: the step that performs a connection's send is not a step of the reader
\* thread: the reader neither holds the chunk during the send nor moves with it.
HandOffNotDirect ==
    [][\A s \in Sessions :
          outbox'[s] # outbox[s] => (thread'[s] = thread[s] /\ chunk'[s] = chunk[s])]_vars

\* C14: a frame goes on a session's port only in a step of that session's write
\* that finds the port open and changes neither the slot nor any port; a session
\* whose port is closed writes its frame to no port and then leaves the loop.
NoWriteAfterClose ==
    [][\A s \in Sessions :
          /\ written'[s] # written[s] =>
                /\ pc[s] = "write" /\ vna[s] = "open"
                /\ vna' = vna /\ thread' = thread /\ NANOVNA_THREAD' = NANOVNA_THREAD
                /\ \A r \in Sessions \ {s} : written'[r] = written[r]
          /\ (pc[s] = "write" /\ vna[s] # "open" /\ pc'[s] # "write") =>
                (written' = written /\ pc'[s] = "loop")
          /\ (pc[s] = "loop" /\ vna[s] # "open" /\ pc'[s] # "loop") =>
                pc'[s] = "release"]_vars

\* a superseded session received a frame, wrote it nowhere and left the loop
NoWriteAfterCloseWitness ==
    \E s, b \in Sessions :
        /\ prev[b] = s /\ vna[s] = "closed" /\ cause[s] = "loop"
        /\ pc[s] \in {"release", "closed"}
        /\ Len(recvd[s]) = 1 /\ written[s] = <<>>

LiveReader == {"running", "sending", "late"}

\* C15: while the lock is free, an open port or a live reader belongs to the
\* occupant of the slot, whose session has not ended; a session that has ended
\* has its reader stopped and its port closed; with no session under way the
\* slot is empty.
NoLeakedWork ==
    NANOVNA_THREAD_LOCK = 0 =>
        /\ \A s \in Sessions :
               (vna[s] = "open" \/ thread[s] \in LiveReader)
                   => (NANOVNA_THREAD = s /\ pc[s] \notin Terminal)
        /\ \A s \in Sessions :
               pc[s] = "closed" => (thread[s] \notin LiveReader /\ vna[s] # "open")
        /\ (\A s \in Sessions : pc[s] \in Terminal \cup {"idle"}) => NANOVNA_THREAD = None

Acquiring == {"starting", "open", "install"}

\* C16: whenever a session is in its acquire (only the running handler can
\* be), a state follows in which no session is in an acquire, the acquire having
\* ended with the port or with an error, and the lock is free; the lock is held only by the
\* handler that is running its acquire, and a running handler can always take
\* its next step.
AcquireReturns ==
    /\ (\E s \in Sessions : pc[s] \in Acquiring)
           ~> ((\A s \in Sessions : pc[s] \notin Acquiring) /\ NANOVNA_THREAD_LOCK = 0)
    /\ [](NANOVNA_THREAD_LOCK > 0 => (running # 0 /\ pc[running] \in {"open", "install"}))
    /\ [](\A s \in Sessions : running = s => ENABLED LoopStep(s))

\* an acquire returned while the previous session waits in recv() and its reader
\* thread is still inside data_received
AcquireReturnsWitness ==
    \E a, b \in Sessions :
        /\ prev[b] = a /\ pc[a] = "recv" /\ thread[a] = "late"
        /\ pc[b] = "recv" /\ NANOVNA_THREAD = b /\ NANOVNA_THREAD_LOCK = 0

\* C17: a session's failure closes no other session's port, the lock is free
\* whenever no handler runs, and an acquire fails only when the port cannot be
\* opened.
FailureIsolation ==
    /\ \A r \in Sessions :
           (pc[r] \in Active /\ vna[r] = "closed")
               => \E b \in Sessions : prev[b] = r /\ pc[b] # "failed"
    /\ running = 0 => NANOVNA_THREAD_LOCK = 0
    /\ \A s \in Sessions : pc[s] = "failed" => cause[s] = "open"

AcquireErrors == {"open", "teardown"}

\* C18: a session whose acquire failed is in the failed state with its
\* connection closed; it received no frame, wrote nothing, has no port and no
\* reader of its own, and its finally block never ran.
FailedStart ==
    \A s \in Sessions :
        /\ cause[s] \in AcquireErrors =>
              /\ pc[s] = "failed" /\ ws[s] = "closed"
              /\ recvd[s] = <<>> /\ msg[s] = NoMsg /\ inbox[s] = <<>>
              /\ written[s] = <<>>
              /\ releases[s] = 0
              /\ thread[s] = "none" /\ NANOVNA_THREAD # s
        /\ pc[s] = "failed" => cause[s] \in AcquireErrors

\* a session failed because the port could not be opened, while another session
\* had been active before it
FailedStartWitness ==
    \E s \in Sessions : pc[s] = "failed" /\ cause[s] = "open" /\ prev[s] # None

\* ---- the latin1 mapping on its own ----
ByteSample == {0, 127, 128, 255}
CodePointSample == {0, 255, 256}

RECURSIVE SeqsUpTo(_, _)
SeqsUpTo(S, n) ==
    IF n = 0 THEN {<<>>}
    ELSE SeqsUpTo(S, n - 1) \cup
         {Append(q, x) : q \in {r \in SeqsUpTo(S, n - 1) : Len(r) = n - 1}, x \in S}

\* either a chunk read from the port, or a text frame from a client
CodecInit ==
    /\ BridgeInit /\ GateIdle
    /\ cecho = NoEcho
    /\ \/ /\ \E b \in SeqsUpTo(ByteSample, MaxLen) \cup {<<x>> : x \in 0..LATIN1_MAX} :
               cdata = [has |-> TRUE, bytes |-> b]
          /\ cmsg = NoText
       \/ /\ cdata = NoBytes
          /\ \E t \in SeqsUpTo({[cp |-> c] : c \in CodePointSample}, MaxLen - 1) :
               cmsg = [has |-> TRUE, text |-> t]

\* line 77
codec_decode ==
    /\ cdata.has /\ ~cmsg.has
    /\ cmsg' = [has |-> TRUE, text |-> latin1_decode(cdata.bytes)]
    /\ UNCHANGED <<cdata, cecho>>

\* line 114
codec_encode ==
    /\ cmsg.has /\ ~cecho.has
    /\ cecho' = [has |-> TRUE, ok |-> latin1_encode(cmsg.text).ok,
                 bytes |-> latin1_encode(cmsg.text).bytes]
    /\ UNCHANGED <<cdata, cmsg>>

CodecNext ==
    \/ codec_decode /\ UNCHANGED <<bridgeVars, gateVars>>
    \/ codec_encode /\ UNCHANGED <<bridgeVars, gateVars>>

CodecSpec == CodecInit /\ [][CodecNext]_vars

\* C9: decoding maps each byte to the code point of the same value, and encoding
\* the decoded text gives back the bytes; a text encodes exactly when all its
\* code points are at most 255, to bytes that decode to it.
ByteFidelity ==
    /\ (cdata.has /\ cmsg.has) =>
          /\ Len(cmsg.text) = Len(cdata.bytes)
          /\ \A i \in 1..Len(cdata.bytes) : cmsg.text[i].cp = cdata.bytes[i]
    /\ (cdata.has /\ cecho.has) => (cecho.ok /\ cecho.bytes = cdata.bytes)
    /\ (~cdata.has /\ cecho.has) =>
          /\ cecho.ok <=> \A i \in 1..Len(cmsg.text) : cmsg.text[i].cp \in 0..255
          /\ cecho.ok => latin1_decode(cecho.bytes) = cmsg.text

\* bytes above 127 have made the round trip
ByteFidelityWitness ==
    /\ cdata.has /\ cecho.has /\ Len(cdata.bytes) >= 2
    /\ \E i \in 1..Len(cdata.bytes) : cdata.bytes[i] > 127

\* ---- process_request (lines 21-59) ----
\* A path is a sequence of pieces: "/" or a piece of text without "/"; adjacent
\* text pieces run together, so a segment is a sequence of text pieces and
\* <<"..", "x">> is the name "..x". No two or more pieces spell CONTROL_TOKEN.
PathPieces == {"/", CONTROL_TOKEN, "index.html", "..", "x"}

\* the served directory, the regular files of the machine, and one symbolic
\* link inside the served directory that leads out of it: /srv/www/x -> /srv
sever_root == << <<"srv">>, <<"www">> >>
Files == { sever_root \o << <<"index.html">> >>,
           sever_root \o << <<CONTROL_TOKEN>> >>,
           << <<"srv">>, <<"index.html">> >>,
           << <<"index.html">> >> }
LinkFrom == sever_root \o << <<"x">> >>
LinkTo == << <<"srv">> >>

\* str.split('/')
RECURSIVE split(_)
split(p) ==
    IF \A i \in 1..Len(p) : p[i] # "/" THEN <<p>>
    ELSE LET i == CHOOSE j \in 1..Len(p) : p[j] = "/" /\ \A k \in 1..(j - 1) : p[k] # "/"
         IN <<SubSeq(p, 1, i - 1)>> \o split(SubSeq(p, i + 1, Len(p)))

\* indexing the split with [1] instead of [-1]
last_segment_second(p) == IF Len(split(p)) >= 2 THEN split(p)[2] ELSE split(p)[1]

\* line 23: path.split('/')[-1]
last_segment(p) == split(p)[Len(split(p))]

\* path[1:]: the first character goes; what is left of a longer piece is some
\* other text, written "~", and what is left of ".." is "."
drop_first_char(p) ==
    IF p = <<>> THEN <<>>
    ELSE IF Head(p) \in {"/", "x"} THEN Tail(p)
    ELSE IF Head(p) = ".." THEN <<".">> \o Tail(p)
    ELSE <<"~">> \o Tail(p)

\* os.path.join(sever_root, rel) followed by os.path.realpath: an absolute rel
\* replaces the root; empty and "." segments go, ".." drops the last component,
\* a component that is a symbolic link is replaced by what it points to
RECURSIVE normalize(_, _)
normalize(base, segs) ==
    IF segs = <<>> THEN base
    ELSE LET g == Head(segs) IN
         IF g = <<>> \/ g = <<".">> THEN normalize(base, Tail(segs))
         ELSE IF g = <<"..">>
              THEN normalize(IF base = <<>> THEN <<>> ELSE SubSeq(base, 1, Len(base) - 1),
                             Tail(segs))
              ELSE normalize(IF Append(base, g) = LinkFrom THEN LinkTo ELSE Append(base, g),
                             Tail(segs))

full_path(rel) ==
    IF rel # <<>> /\ Head(rel) = "/"
    THEN normalize(<<>>, split(rel))
    ELSE normalize(sever_root, split(rel))

\* a server that does not compare the resolved path with the root
outside_root_unchecked(full) == FALSE

\* line 41: os.path.commonpath((sever_root, full_path)) != sever_root
outside_root(full) ==
    ~(Len(full) >= Len(sever_root) /\ SubSeq(full, 1, Len(sever_root)) = sever_root)

GateInit ==
    /\ BridgeInit /\ CodecIdle
    /\ gpath \in SeqsUpTo(PathPieces, MaxPathLen)
    /\ gupgrade \in BOOLEAN
    /\ gresp = "none" /\ gfile = NoFile /\ ghandler = FALSE

process_request ==
    /\ gresp = "none"
    /\ IF gupgrade
       THEN /\ gresp' = IF last_segment(gpath) # <<CONTROL_TOKEN>> THEN "404" ELSE "upgrade"
            /\ UNCHANGED gfile
       ELSE LET path == IF gpath = <<"/">> THEN <<"/", "index.html">> ELSE gpath
                full == full_path(drop_first_char(path))
            IN IF outside_root(full) \/ full \notin Files
               THEN gresp' = "404" /\ UNCHANGED gfile
               ELSE gresp' = "200" /\ gfile' = [has |-> TRUE, path |-> full]
    /\ UNCHANGED <<gpath, gupgrade, ghandler>>

\* process_request returned None: websockets completes the upgrade and calls the
\* handler, process_websocket with nanovna_control (lines 62-65, 126-129)
gate_handler ==
    /\ gresp = "upgrade"
    /\ ~ghandler
    /\ ghandler' = TRUE
    /\ UNCHANGED <<gpath, gupgrade, gresp, gfile>>

GateNext ==
    \/ process_request /\ UNCHANGED <<bridgeVars, codecVars>>
    \/ gate_handler /\ UNCHANGED <<bridgeVars, codecVars>>

GateSpec == GateInit /\ [][GateNext]_vars

\* seg is what follows the last "/" of p (all of p when it has none)
IsFinalSegment(p, seg) ==
    \E i \in 0..Len(p) :
        /\ i = 0 \/ p[i] = "/"
        /\ seg = SubSeq(p, i + 1, Len(p))
        /\ \A k \in (i + 1)..Len(p) : p[k] # "/"

\* C10: an upgrade request is accepted exactly when the part of its path after
\* the last "/" is the token; otherwise it is answered 404; the handler is
\* called only for an accepted upgrade request.
UpgradeRouting ==
    /\ (gupgrade /\ gresp # "none") =>
          /\ gresp = "upgrade" <=> IsFinalSegment(gpath, <<CONTROL_TOKEN>>)
          /\ gresp # "upgrade" => gresp = "404"
          /\ gfile = NoFile
    /\ ghandler => (gupgrade /\ IsFinalSegment(gpath, <<CONTROL_TOKEN>>))

\* an upgrade request for /x/nanovna-control has reached the handler
UpgradeRoutingWitness ==
    /\ gupgrade /\ ghandler
    /\ gpath = <<"/", "x", "/", CONTROL_TOKEN>>

\* full lies in the served directory
UnderRoot(full) == Len(full) >= 2 /\ full[1] = <<"srv">> /\ full[2] = <<"www">>

\* C11: a request without Upgrade header opens a file only if the resolved path
\* is a regular file under the served directory; a request whose path resolves
\* to a place outside the served directory is answered 404 and opens no file.
StaticContainment ==
    /\ gfile.has => (~gupgrade /\ gresp = "200" /\ gfile.path \in Files /\ UnderRoot(gfile.path))
    /\ (~gupgrade /\ gresp # "none" /\ gpath # <<"/">>
            /\ ~UnderRoot(full_path(drop_first_char(gpath))))
           => (gresp = "404" /\ ~gfile.has)
    /\ gresp = "200" => gfile.has

\* /../index.html, which names an existing file above the served directory, and
\* /x/index.html, which reaches one through the link, were answered 404
StaticContainmentWitness ==
    /\ ~gupgrade /\ gresp = "404" /\ ~gfile.has
    /\ gpath \in {<<"/", "..", "/", "index.html">>, <<"/", "x", "/", "index.html">>}
    /\ full_path(drop_first_char(gpath)) \in Files

====
